---- MODULE Spec2Model ----
(***************************************************************************)
(* Live preview decorations of mkdown (src/slate-plugins/livePreview.ts):  *)
(* the HTML normalizer minifyHTML, the inline widgets, the decoration      *)
(* builder buildDecorations and the view plugin that republishes the       *)
(* decoration set on host updates.                                         *)
(*                                                                         *)
(* Text is a sequence of one-character strings; document offsets are       *)
(* 0-based as in the source, so the character at offset k is text[k + 1].  *)
(***************************************************************************)
EXTENDS Integers, Sequences, FiniteSets, TLC

VARIABLES
    doc,            \* view.state.doc: the document text
    tree,           \* syntaxTree(view.state): the nodes parsed so far, in pre-order
    selection,      \* view.state.selection.main: [from, to]
    visibleRanges,  \* view.visibleRanges: sequence of [from, to]
    decorations,    \* the published field this.decorations
    lastUpdate,     \* flags of the ViewUpdate handled last: [docChanged, viewportChanged, selectionSet]
    rendered,       \* the DOM nodes the rendering layer drew for the published set, entry by entry
    html,           \* normalizer harness: the string handed to minifyHTML next
    prevHtml,       \* normalizer harness: the string before the last pass
    passes          \* normalizer harness: number of passes applied

vars == <<doc, tree, selection, visibleRanges, decorations, lastUpdate, rendered,
          html, prevHtml, passes>>

----------------------------------------------------------------------------
(* Text primitives                                                         *)

Min(a, b) == IF a < b THEN a ELSE b
Max(a, b) == IF a > b THEN a ELSE b

\* JavaScript's \s restricted to the characters TLA+ strings can spell
WhiteSpace == {" ", "\t", "\n", "\r", "\f"}
IsWs(c) == c \in WhiteSpace

\* [a-zA-Z0-9\-_]
SimpleChars ==
    {"a","b","c","d","e","f","g","h","i","j","k","l","m","n","o","p","q","r","s","t","u","v","w","x","y","z",
     "A","B","C","D","E","F","G","H","I","J","K","L","M","N","O","P","Q","R","S","T","U","V","W","X","Y","Z",
     "0","1","2","3","4","5","6","7","8","9","-","_"}

\* case folding of the letters the /i patterns name
Lower(c) ==
    CASE c = "S" -> "s" [] c = "T" -> "t" [] c = "Y" -> "y"
      [] c = "L" -> "l" [] c = "E" -> "e" [] OTHER -> c

\* s[i], or "" past either end
At(s, i) == IF i >= 1 /\ i <= Len(s) THEN s[i] ELSE ""

\* literal p occurs in s at index i
HasAt(s, i, p) ==
    /\ i >= 1
    /\ i + Len(p) - 1 <= Len(s)
    /\ \A k \in 1..Len(p) : s[i + k - 1] = p[k]

\* the same, ignoring case (p is given in lower case)
HasAtCI(s, i, p) ==
    /\ i >= 1
    /\ i + Len(p) - 1 <= Len(s)
    /\ \A k \in 1..Len(p) : Lower(s[i + k - 1]) = p[k]

\* least index j >= i where p occurs, 0 when there is none
RECURSIVE Find(_, _, _)
Find(s, i, p) ==
    IF i + Len(p) - 1 > Len(s) THEN 0
    ELSE IF HasAt(s, i, p) THEN i ELSE Find(s, i + 1, p)

RECURSIVE FindCI(_, _, _)
FindCI(s, i, p) ==
    IF i + Len(p) - 1 > Len(s) THEN 0
    ELSE IF HasAtCI(s, i, p) THEN i ELSE FindCI(s, i + 1, p)

\* length of the whitespace run starting at index i
RECURSIVE WsRun(_, _)
WsRun(s, i) == IF i >= 1 /\ i <= Len(s) /\ IsWs(s[i]) THEN 1 + WsRun(s, i + 1) ELSE 0

\* length of the run of simple attribute characters starting at index i
RECURSIVE SimpleRun(_, _)
SimpleRun(s, i) ==
    IF i >= 1 /\ i <= Len(s) /\ s[i] \in SimpleChars THEN 1 + SimpleRun(s, i + 1) ELSE 0

\* String.prototype.replace(/.../g, ...): scan left to right; M(s, i) is the length
\* of the match starting at i (0: none), R(s, i, m) what replaces it
ReplaceAll(s, M(_, _), R(_, _, _)) ==
    LET f[i \in 1..(Len(s) + 1)] ==
            IF i > Len(s) THEN <<>>
            ELSE LET m == M(s, i)
                 IN  IF m > 0 THEN R(s, i, m) \o f[i + m]
                     ELSE <<s[i]>> \o f[i + 1]
    IN  f[1]

\* the characters of s that are not in drop
Without(s, drop) == SelectSeq(s, LAMBDA c : c \notin drop)

\* String.prototype.trim, and /^\s+|\s+$/g
Trim(s) ==
    LET lead == WsRun(s, 1)
        keep == {j \in 1..Len(s) : ~IsWs(s[j])}
        last == IF keep = {} THEN 0 ELSE CHOOSE j \in keep : \A k \in keep : k <= j
    IN  IF keep = {} THEN <<>> ELSE SubSeq(s, lead + 1, last)

\* /\s*c\s*/g -> c
TightenAround(s, c) ==
    ReplaceAll(s,
        LAMBDA t, i : LET a == WsRun(t, i)
                      IN  IF At(t, i + a) = c THEN a + 1 + WsRun(t, i + a + 1) ELSE 0,
        LAMBDA t, i, m : <<c>>)

\* /\s{2,}/g -> " "
CollapseSpaces(s) ==
    ReplaceAll(s,
        LAMBDA t, i : LET a == WsRun(t, i) IN IF a >= 2 THEN a ELSE 0,
        LAMBDA t, i, m : <<" ">>)

\* /open[\s\S]*?close/g -> "" (HTML and CSS comments)
StripDelimited(s, open, close) ==
    ReplaceAll(s,
        LAMBDA t, i : IF HasAt(t, i, open) /\ Find(t, i + Len(open), close) > 0
                      THEN Find(t, i + Len(open), close) + Len(close) - i
                      ELSE 0,
        LAMBDA t, i, m : <<>>)

\* /;\s*$/ -> "" (no g flag: the one match that reaches the end of the string)
DropTrailingSemicolon(s) ==
    LET keep == {j \in 1..Len(s) : ~IsWs(s[j])}
        last == IF keep = {} THEN 0 ELSE CHOOSE j \in keep : \A k \in keep : k <= j
    IN  IF last > 0 /\ s[last] = ";" THEN SubSeq(s, 1, last - 1) ELSE s

Quotes == {"\"", "'"}

\* least index j >= i holding a quote character, 0 when there is none
FindQuote(s, i) ==
    LET hits == {j \in i..Len(s) : s[j] \in Quotes}
    IN  IF hits = {} THEN 0 ELSE CHOOSE j \in hits : \A k \in hits : j <= k

CommentOpen == <<"<", "!", "-", "-">>
CommentClose == <<"-", "-", ">">>
CssCommentOpen == <<"/", "*">>
CssCommentClose == <<"*", "/">>
StyleTagStart == <<"<", "s", "t", "y", "l", "e">>
StyleTagOpen == <<"<", "s", "t", "y", "l", "e", ">">>
StyleTagClose == <<"<", "/", "s", "t", "y", "l", "e", ">">>
StyleAttr == <<"s", "t", "y", "l", "e">>
StyleAttrOpen == <<"s", "t", "y", "l", "e", "=", "\"">>

----------------------------------------------------------------------------
(* minifyHTML                                                              *)

\* the callback of the <style> replacement: the CSS between the tags
MinifyCSS(css) ==
    LET c1 == StripDelimited(css, CssCommentOpen, CssCommentClose)
        c2 == TightenAround(c1, "{")
        c3 == TightenAround(c2, "}")
        c4 == TightenAround(c3, ";")
        c5 == TightenAround(c4, ":")
        c6 == TightenAround(c5, ",")
        \* /;\s*}/g -> "}"
        c7 == ReplaceAll(c6,
                LAMBDA t, i : IF At(t, i) = ";" /\ At(t, i + 1 + WsRun(t, i + 1)) = "}"
                              THEN WsRun(t, i + 1) + 2 ELSE 0,
                LAMBDA t, i, m : <<"}">>)
        c8 == Without(c7, {"\r", "\n", "\t"})
        c9 == CollapseSpaces(c8)
    IN  Trim(c9)

\* the callback of the style="..." replacement: the attribute value
MinifyStyleAttr(style) ==
    LET s1 == TightenAround(style, ";")
        s2 == TightenAround(s1, ":")
        s3 == DropTrailingSemicolon(s2)
        s4 == CollapseSpaces(s3)
    IN  Trim(s4)

\* /<style[^>]*>([\s\S]*?)<\/style>/gi
StyleBlockGt(t, i) == IF HasAtCI(t, i, StyleTagStart) THEN Find(t, i + 6, <<">">>) ELSE 0
StyleBlockClose(t, i) ==
    IF StyleBlockGt(t, i) > 0 THEN FindCI(t, StyleBlockGt(t, i) + 1, StyleTagClose) ELSE 0
MinifyStyleBlocks(s) ==
    ReplaceAll(s,
        LAMBDA t, i : IF StyleBlockClose(t, i) > 0 THEN StyleBlockClose(t, i) + 8 - i ELSE 0,
        LAMBDA t, i, m : StyleTagOpen
                            \o MinifyCSS(SubSeq(t, StyleBlockGt(t, i) + 1, StyleBlockClose(t, i) - 1))
                            \o StyleTagClose)

\* /style\s*=\s*["']([^"']*?)["']/gi
StyleAttrQuote(t, i) ==
    IF HasAtCI(t, i, StyleAttr)
    THEN LET eq == i + 5 + WsRun(t, i + 5)
             q  == eq + 1 + WsRun(t, eq + 1)
         IN  IF At(t, eq) = "=" /\ At(t, q) \in Quotes THEN q ELSE 0
    ELSE 0
StyleAttrEnd(t, i) == IF StyleAttrQuote(t, i) > 0 THEN FindQuote(t, StyleAttrQuote(t, i) + 1) ELSE 0
MinifyStyleAttrs(s) ==
    ReplaceAll(s,
        LAMBDA t, i : IF StyleAttrEnd(t, i) > 0 THEN StyleAttrEnd(t, i) - i + 1 ELSE 0,
        LAMBDA t, i, m : StyleAttrOpen
                            \o MinifyStyleAttr(SubSeq(t, StyleAttrQuote(t, i) + 1, StyleAttrEnd(t, i) - 1))
                            \o <<"\"">>)

\* /=["']([a-zA-Z0-9\-_]+)["']/g -> "=$1"
UnquoteSimpleValues(s) ==
    ReplaceAll(s,
        LAMBDA t, i : IF /\ At(t, i) = "="
                         /\ At(t, i + 1) \in Quotes
                         /\ SimpleRun(t, i + 2) >= 1
                         /\ At(t, i + 2 + SimpleRun(t, i + 2)) \in Quotes
                      THEN SimpleRun(t, i + 2) + 3 ELSE 0,
        LAMBDA t, i, m : <<"=">> \o SubSeq(t, i + 2, i + m - 2))

\* />\s+</g -> "><"
JoinTags(s) ==
    ReplaceAll(s,
        LAMBDA t, i : IF /\ At(t, i) = ">"
                         /\ WsRun(t, i + 1) >= 1
                         /\ At(t, i + 1 + WsRun(t, i + 1)) = "<"
                      THEN WsRun(t, i + 1) + 2 ELSE 0,
        LAMBDA t, i, m : <<">", "<">>)

\* /\s*\/\s*>/g -> "/>"
TightenSelfClosing(s) ==
    ReplaceAll(s,
        LAMBDA t, i : LET a == WsRun(t, i)
                          b == WsRun(t, i + a + 1)
                      IN  IF At(t, i + a) = "/" /\ At(t, i + a + 1 + b) = ">"
                          THEN a + b + 2 ELSE 0,
        LAMBDA t, i, m : <<"/", ">">>)

minifyHTML(h) ==
    LET h1  == StripDelimited(h, CommentOpen, CommentClose)
        h2  == Without(h1, {"\r", "\n"})
        h3  == Without(h2, {"\t"})
        h4  == JoinTags(h3)
        h5  == Trim(h4)
        h6  == CollapseSpaces(h5)
        h7  == TightenAround(h6, "=")
        h8  == TightenAround(h7, "<")
        h9  == TightenAround(h8, ">")
        h10 == MinifyStyleBlocks(h9)
        h11 == MinifyStyleAttrs(h10)
        h12 == UnquoteSimpleValues(h11)
        h13 == TightenSelfClosing(h12)
    IN  Trim(h13)

----------------------------------------------------------------------------
(* Host editor primitives the builder calls                                *)

\* state.doc.lineAt(pos): the line containing offset pos; a line ends at its "\n"
RECURSIVE LineStart(_, _)
LineStart(text, pos) ==
    IF pos <= 0 THEN 0
    ELSE IF pos <= Len(text) /\ text[pos] = "\n" THEN pos ELSE LineStart(text, pos - 1)

RECURSIVE LineEnd(_, _)
LineEnd(text, pos) ==
    IF pos >= Len(text) THEN Len(text)
    ELSE IF text[pos + 1] = "\n" THEN pos ELSE LineEnd(text, pos + 1)

lineAt(text, pos) == [from |-> LineStart(text, pos), to |-> LineEnd(text, pos)]

\* state.sliceDoc(from, to): the text of [from, to), clipped to the document
sliceDoc(text, from, to) ==
    LET f == Max(0, Min(Len(text), from))
        t == Max(f, Min(Len(text), to))
    IN  SubSeq(text, f + 1, t)

\* tree.iterate({from, to, enter}): the nodes touching [from, to], parents first
iterate(nodes, from, to) == SelectSeq(nodes, LAMBDA n : n.from <= to /\ n.to >= from)

\* DOMPurify.sanitize: the external sanitizer, kept as an opaque constructor
sanitize(h) == [sanitized |-> h]

----------------------------------------------------------------------------
(* Widgets                                                                 *)

NoWidget == [type |-> "none", payload |-> <<>>]
HTMLWidget(h) == [type |-> "HTMLWidget", payload |-> h]
ImageWidget(url) == [type |-> "ImageWidget", payload |-> url]
TextWidget(text) == [type |-> "TextWidget", payload |-> text]
BulletWidget == [type |-> "BulletWidget", payload |-> <<>>]

\* faulty variant: the payload is assigned to innerHTML without the sanitizer
HTMLWidget_toDOM_unsanitized(w) ==
    [tag |-> "span", className |-> "cm-html-widget",
     set |-> "innerHTML", value |-> w.payload]

HTMLWidget_toDOM(w) ==
    [tag |-> "span", className |-> "cm-html-widget",
     set |-> "innerHTML", value |-> sanitize(w.payload)]
ImageWidget_toDOM(w) ==
    [tag |-> "img", className |-> "cm-image-widget", set |-> "src", value |-> w.payload]
TextWidget_toDOM(w) ==
    [tag |-> "span", className |-> "cm-link-text", set |-> "textContent", value |-> w.payload]
\* the bullet glyph is spelled *
BulletWidget_toDOM(w) ==
    [tag |-> "span", className |-> "cm-list-bullet", set |-> "textContent",
     value |-> <<"*", " ">>]

NoDOM == [tag |-> "none"]

toDOM(w) ==
    CASE w.type = "HTMLWidget"   -> HTMLWidget_toDOM(w)
      [] w.type = "ImageWidget"  -> ImageWidget_toDOM(w)
      [] w.type = "TextWidget"   -> TextWidget_toDOM(w)
      [] w.type = "BulletWidget" -> BulletWidget_toDOM(w)

----------------------------------------------------------------------------
(* buildDecorations                                                        *)

\* text.match(/^!\[(.*?)\]\((.*?)\)$/): "." matches no line terminator
ImageMatch(text) ==
    LET n == Len(text)
        p == Find(text, 3, <<"]", "(">>)
        ok == /\ HasAt(text, 1, <<"!", "[">>)
              /\ p > 0
              /\ p + 2 <= n
              /\ text[n] = ")"
              /\ \A j \in 3..(n - 1) : text[j] \notin {"\n", "\r"}
    IN  [ok  |-> ok,
         alt |-> IF ok THEN SubSeq(text, 3, p - 1) ELSE <<>>,
         url |-> IF ok THEN SubSeq(text, p + 2, n - 1) ELSE <<>>]

\* builder.add(from, to, Decoration.replace({widget})); node records the syntax
\* node the entry was added for
Entry(from, to, widget, node) == [from |-> from, to |-> to, widget |-> widget, node |-> node]

isHTML(node) == node.name = "HTMLTag" \/ node.name = "HTMLBlock"

\* faulty variant: every kind is tested against its own range, none against its line
Revealed_ownRange(view, node) ==
    view.selection.from <= node.to /\ view.selection.to >= node.from

\* the reveal test of enter: TRUE when the callback returns before adding anything
Revealed(view, node) ==
    LET nodeLine == lineAt(view.doc, node.from)
        sel == view.selection
    IN  IF isHTML(node)
        THEN sel.from <= node.to /\ sel.to >= node.from
        ELSE sel.from <= nodeLine.to /\ sel.to >= nodeLine.from

\* faulty variant: the character after the mark is hidden whatever it is
HeaderMarkEnd_always(view, node) == node.to + 1

\* the HeaderMark branch
HeaderMarkEnd(view, node) ==
    LET afterMark == sliceDoc(view.doc, node.to, node.to + 1)
    IN  IF afterMark = <<" ">> THEN node.to + 1 ELSE node.to

\* faulty variant: the alt text is ignored and every matching image becomes an Image widget
ImageEntries_noAlt(view, node) ==
    LET match == ImageMatch(sliceDoc(view.doc, node.from, node.to))
    IN  IF match.ok
        THEN <<Entry(node.from, node.to, ImageWidget(match.url), node)>>
        ELSE <<>>

\* the Image branch
ImageEntries(view, node) ==
    LET match == ImageMatch(sliceDoc(view.doc, node.from, node.to))
    IN  IF match.ok
        THEN IF match.alt = <<>>
             THEN <<Entry(node.from, node.to, ImageWidget(match.url), node)>>
             ELSE <<Entry(node.from, node.to, TextWidget(match.alt), node)>>
        ELSE <<>>

\* the HTMLTag / HTMLBlock branch
HTMLEntries(view, node) ==
    LET text == sliceDoc(view.doc, node.from, node.to)
        minified == minifyHTML(text)
    IN  <<Entry(node.from, node.to, HTMLWidget(minified), node)>>

\* the entries one call of enter adds to the builder
enter(view, node) ==
    IF Revealed(view, node) THEN <<>>
    ELSE CASE node.name = "HeaderMark"   -> <<Entry(node.from, HeaderMarkEnd(view, node), NoWidget, node)>>
           [] node.name = "EmphasisMark" -> <<Entry(node.from, node.to, NoWidget, node)>>
           [] node.name = "CodeMark"     -> <<Entry(node.from, node.to, NoWidget, node)>>
           [] node.name = "ListMark"     -> <<Entry(node.from, node.to, BulletWidget, node)>>
           [] node.name = "Image"        -> ImageEntries(view, node)
           [] isHTML(node)               -> HTMLEntries(view, node)
           [] OTHER                      -> <<>>

\* one syntaxTree(state).iterate call: the entries added while walking a visible range
RECURSIVE EnterAll(_, _)
EnterAll(view, nodes) ==
    IF nodes = <<>> THEN <<>>
    ELSE enter(view, Head(nodes)) \o EnterAll(view, Tail(nodes))

\* the loop over view.visibleRanges
RECURSIVE BuildRanges(_, _)
BuildRanges(view, ranges) ==
    IF ranges = <<>> THEN <<>>
    ELSE EnterAll(view, iterate(view.tree, Head(ranges).from, Head(ranges).to))
            \o BuildRanges(view, Tail(ranges))

\* a fresh builder, the loop, builder.finish(): the entries in the order added
buildDecorations(view) == BuildRanges(view, view.visibleRanges)

----------------------------------------------------------------------------
(* The view plugin                                                         *)

View(d, t, sel, vis) == [doc |-> d, tree |-> t, selection |-> sel, visibleRanges |-> vis]

\* constructor(view)
constructor(view) == buildDecorations(view)

\* faulty variant: a selection change alone does not rebuild
update_noSelection(current, upd) ==
    IF upd.docChanged \/ upd.viewportChanged
    THEN buildDecorations(upd.view)
    ELSE current

\* update(update): the value of this.decorations afterwards
update(current, upd) ==
    IF upd.docChanged \/ upd.viewportChanged \/ upd.selectionSet
    THEN buildDecorations(upd.view)
    ELSE current

----------------------------------------------------------------------------
(* The host editor: documents, their syntax trees, selections, viewports   *)

MaxSelLen == 1
MaxFoldLines == 1

N(name, from, to) == [name |-> name, from |-> from, to |-> to]

\* an ATX heading with a closing mark, an emphasised paragraph, an empty heading
DocHeadings ==
    [text  |-> <<"#", " ", "T", " ", "#", "\n", "*", "a", "*", "\n", "#">>,
     nodes |-> << N("ATXHeading1", 0, 5), N("HeaderMark", 0, 1), N("HeaderMark", 4, 5),
                  N("Paragraph", 6, 9), N("Emphasis", 6, 9),
                  N("EmphasisMark", 6, 7), N("EmphasisMark", 8, 9),
                  N("ATXHeading1", 10, 11), N("HeaderMark", 10, 11) >>,
     stops |-> {5, 9, 11}]

\* a bullet item holding inline code, a blank line, an image with an empty alt text
\* (the backquotes of the inline code are spelled ~)
DocList ==
    [text  |-> <<"-", " ", "~", "c", "~", "\n", "\n", "!", "[", "]", "(", "u", ")">>,
     nodes |-> << N("BulletList", 0, 5), N("ListItem", 0, 5), N("ListMark", 0, 1),
                  N("Paragraph", 2, 5), N("InlineCode", 2, 5),
                  N("CodeMark", 2, 3), N("CodeMark", 4, 5),
                  N("Paragraph", 7, 13), N("Image", 7, 13), N("URL", 11, 12) >>,
     stops |-> {5, 13}]

\* one paragraph: an image whose alt text is emphasised, a reference-style image
DocImages ==
    [text  |-> <<"!", "[", "*", "a", "*", "]", "(", "u", ")", "\n",
                 "!", "[", "a", "]", "[", "r", "]">>,
     nodes |-> << N("Paragraph", 0, 17), N("Image", 0, 9), N("Emphasis", 2, 5),
                  N("EmphasisMark", 2, 3), N("EmphasisMark", 4, 5), N("URL", 7, 8),
                  N("Image", 10, 17), N("LinkLabel", 14, 17) >>,
     stops |-> {17}]

\* a two-line HTML block, a blank line, a paragraph holding an inline tag
DocHTML ==
    [text  |-> <<"<", "p", " ", ">", "\n", "x", "<", "/", "p", ">", "\n", "\n",
                 "z", "<", "i", ">">>,
     nodes |-> << N("HTMLBlock", 0, 10), N("Paragraph", 12, 16), N("HTMLTag", 13, 16) >>,
     stops |-> {10, 16}]

Docs == {DocHeadings, DocList, DocImages, DocHTML}

DocOf(text) == CHOOSE d \in Docs : d.text = text

\* the trees the incremental parser can have produced for a document: everything
\* up to one of its block boundaries
Trees(d) == {SelectSeq(d.nodes, LAMBDA n : n.to <= s) : s \in d.stops}

\* a cursor or a short selection anywhere in the text
Selections(text) ==
    {[from |-> f, to |-> t] : f, t \in 0..Len(text)} \cap
    {[from |-> f, to |-> f + k] : f \in 0..Len(text), k \in 0..MaxSelLen}

\* the selection mapped into a changed document
ClampSelection(sel, text) == [from |-> Min(sel.from, Len(text)), to |-> Min(sel.to, Len(text))]

\* the end offsets of the lines of the text, in order
LineEnds(text) ==
    LET ends == {j \in 0..Len(text) : j = Len(text) \/ text[j + 1] = "\n"}
        f[S \in SUBSET ends] ==
            IF S = {} THEN <<>>
            ELSE LET m == CHOOSE j \in S : \A k \in S : j <= k
                 IN  <<m>> \o f[S \ {m}]
    IN  f[ends]

\* the visible ranges the host can report: the whole document, a viewport that
\* ends at a line end, or the document with a fold from one line end to a later one
VisibleConfigs(text) ==
    LET ends == LineEnds(text)
        n == Len(ends)
    IN  {<< [from |-> 0, to |-> Len(text)] >>}
          \cup {<< [from |-> 0, to |-> ends[i]] >> : i \in 1..(n - 1)}
          \cup UNION { {<< [from |-> 0, to |-> ends[i]], [from |-> ends[j], to |-> Len(text)] >> :
                            j \in {k \in 2..n : k > i /\ k - i <= MaxFoldLines}} :
                        i \in 1..(n - 1) }

\* the rendering layer: the DOM node drawn for each entry of a decoration set
Draw(decos) ==
    [i \in 1..Len(decos) |->
        IF decos[i].widget.type = "none" THEN NoDOM ELSE toDOM(decos[i].widget)]

NoFlags == [docChanged |-> FALSE, viewportChanged |-> FALSE, selectionSet |-> FALSE]
view == View(doc, tree, selection, visibleRanges)

Init ==
    /\ \E d \in Docs :
          /\ doc = d.text
          /\ tree \in Trees(d)
          /\ visibleRanges \in VisibleConfigs(d.text)
    /\ selection = [from |-> 0, to |-> 0]
    /\ decorations = constructor(view)
    /\ lastUpdate = NoFlags
    /\ rendered = Draw(decorations)
    /\ html = <<>> /\ prevHtml = <<>> /\ passes = 0

\* the host hands the plugin one ViewUpdate: the update method runs to completion,
\* then the rendering layer redraws the widgets of the published set
HostUpdate(d, t, sel, vis, flags) ==
    /\ doc' = d
    /\ tree' = t
    /\ selection' = sel
    /\ visibleRanges' = vis
    /\ decorations' = update(decorations,
                             [docChanged |-> flags.docChanged,
                              viewportChanged |-> flags.viewportChanged,
                              selectionSet |-> flags.selectionSet,
                              view |-> View(d, t, sel, vis)])
    /\ lastUpdate' = flags
    /\ rendered' = Draw(decorations')
    /\ UNCHANGED <<html, prevHtml, passes>>

\* a transaction replaces the document; the selection is mapped into it, and the
\* viewport either keeps its ranges or shows the whole new document
DocChanged ==
    \E d \in Docs, ss \in BOOLEAN :
      \E t \in Trees(d),
         vis \in {<< [from |-> 0, to |-> Len(d.text)] >>}
                    \cup ({visibleRanges} \cap VisibleConfigs(d.text)) :
        /\ d.text # doc
        /\ HostUpdate(d.text, t, ClampSelection(selection, d.text), vis,
                      [docChanged |-> TRUE, viewportChanged |-> (vis # visibleRanges),
                       selectionSet |-> ss])

\* a transaction sets the selection (possibly to the value it has)
SelectionSet ==
    \E sel \in Selections(doc) :
        HostUpdate(doc, tree, sel, visibleRanges,
                   [docChanged |-> FALSE, viewportChanged |-> FALSE, selectionSet |-> TRUE])

\* scrolling or folding changes the visible ranges
ViewportChanged ==
    \E vis \in VisibleConfigs(doc), ss \in BOOLEAN :
        /\ vis # visibleRanges
        /\ HostUpdate(doc, tree, selection, vis,
                      [docChanged |-> FALSE, viewportChanged |-> TRUE, selectionSet |-> ss])

\* the background parser publishes a longer tree: an update with none of the three flags
TreeAdvanced ==
    \E t \in Trees(DocOf(doc)) :
        /\ Len(t) > Len(tree)
        /\ HostUpdate(doc, t, selection, visibleRanges, NoFlags)

Next == DocChanged \/ SelectionSet \/ ViewportChanged \/ TreeAdvanced

Spec == Init /\ [][Next]_vars

----------------------------------------------------------------------------
(* Normalizer harness: minifyHTML applied repeatedly to a bounded input    *)

MaxTokens == 4
MaxPasses == 2

HtmlTokens ==
    { <<"<", "!", "-", "-">>, <<"-", "-">>, <<">">>, <<" ">>, <<"a">>, <<";">>,
      <<"s", "t", "y", "l", "e", " ", "=", "\"">>, <<"\"">>,
      <<"<", "s", "t", "y", "l", "e", ">">>, <<"}", "<", "/", "s", "t", "y", "l", "e", ">">> }

RECURSIVE Flatten(_)
Flatten(ts) == IF ts = <<>> THEN <<>> ELSE Head(ts) \o Flatten(Tail(ts))

HtmlInputsUpTo(k) == {Flatten(ts) : ts \in UNION {[1..n -> HtmlTokens] : n \in 0..k}}

InitMinify ==
    /\ html \in HtmlInputsUpTo(MaxTokens)
    /\ prevHtml = html
    /\ passes = 0
    /\ doc = <<>> /\ tree = <<>> /\ selection = [from |-> 0, to |-> 0]
    /\ visibleRanges = <<>> /\ decorations = <<>>
    /\ lastUpdate = NoFlags
    /\ rendered = NoDOM

Minify ==
    /\ passes < MaxPasses
    /\ prevHtml' = html
    /\ html' = minifyHTML(html)
    /\ passes' = passes + 1
    /\ UNCHANGED <<doc, tree, selection, visibleRanges, decorations, lastUpdate, rendered>>

NextMinify == Minify

SpecMinify == InitMinify /\ [][NextMinify]_vars

----------------------------------------------------------------------------
(* Properties                                                              *)

\* what a build over the current view returns
Built == buildDecorations(view)

\* the traversal visits the node: it touches one of the visible ranges
Touched(n) == {i \in 1..Len(visibleRanges) :
                    n.from <= visibleRanges[i].to /\ n.to >= visibleRanges[i].from}
Visited(n) == Touched(n) # {}

\* the entries of a set that were added for node n
EntriesFor(decos, n) == SelectSeq(decos, LAMBDA e : e.node = n)

Nodes == {tree[i] : i \in 1..Len(tree)}
LineKinds == {"HeaderMark", "EmphasisMark", "CodeMark", "ListMark", "Image"}

\* the selection touches the line holding the start of the node
TouchesLine(n) ==
    LET line == lineAt(doc, n.from)
    IN  selection.from <= line.to /\ selection.to >= line.from

\* the selection touches the range of the node itself
TouchesNode(n) == selection.from <= n.to /\ selection.to >= n.from

Flagged == lastUpdate.docChanged \/ lastUpdate.viewportChanged \/ lastUpdate.selectionSet

\* the splits of a text of the shape ![alt](url): the lengths alt can have
ShapeSplits(text) ==
    {k \in 0..(Len(text) - 5) :
        /\ text = <<"!", "[">> \o SubSeq(text, 3, 2 + k) \o <<"]", "(">>
                    \o SubSeq(text, 5 + k, Len(text) - 1) \o <<")">>
        /\ \A j \in 1..Len(text) : text[j] \notin {"\n", "\r"}}
HasShape(text) == ShapeSplits(text) # {}
ShapeAltLen(text) == CHOOSE k \in ShapeSplits(text) : \A m \in ShapeSplits(text) : k <= m
ShapeAlt(text) == SubSeq(text, 3, 2 + ShapeAltLen(text))
ShapeUrl(text) == SubSeq(text, 5 + ShapeAltLen(text), Len(text) - 1)

\* C1: the entries of one build are added in non-decreasing from order and no two
\* of them overlap
C1_SortedNonOverlapping ==
    \A i, j \in 1..Len(decorations) :
        i < j => /\ decorations[i].from <= decorations[j].from
                 /\ decorations[i].to <= decorations[j].from

\* C2: a visited node of a line kind gets no entry when the selection touches the
\* line of its start, and its hide rule applies when the selection is on other lines
C2_LineSemantics ==
    \A n \in Nodes :
        (n.name \in LineKinds /\ Visited(n)) =>
            LET es == EntriesFor(Built, n)
            IN  IF TouchesLine(n)
                THEN es = <<>>
                ELSE /\ \A k \in 1..Len(es) :
                          /\ es[k].from = n.from
                          /\ CASE n.name = "HeaderMark" ->
                                    es[k].to \in {n.to, n.to + 1} /\ es[k].widget = NoWidget
                               [] n.name \in {"EmphasisMark", "CodeMark"} ->
                                    es[k].to = n.to /\ es[k].widget = NoWidget
                               [] n.name = "ListMark" ->
                                    es[k].to = n.to /\ es[k].widget = BulletWidget
                               [] n.name = "Image" ->
                                    es[k].to = n.to
                                        /\ es[k].widget.type \in {"ImageWidget", "TextWidget"}
                     /\ n.name # "Image" => es # <<>>
                     /\ n.name = "Image" =>
                            (es # <<>> <=> HasShape(sliceDoc(doc, n.from, n.to)))

\* C2 witness: a selection was set, one header mark is on its line and shown raw,
\* another header mark is on a different line and hidden in the published set
C2_Witness ==
    /\ lastUpdate.selectionSet
    /\ \E n1, n2 \in Nodes :
          /\ n1.name = "HeaderMark" /\ n2.name = "HeaderMark"
          /\ Visited(n1) /\ Visited(n2)
          /\ TouchesLine(n1) /\ ~TouchesLine(n2)
          /\ EntriesFor(decorations, n1) = <<>>
          /\ EntriesFor(decorations, n2) # <<>>

\* C3: a visited HTML node gets no entry exactly when the selection touches its own
\* range, and otherwise one replacement over its range carrying an HTML widget
C3_BlockSemantics ==
    \A n \in Nodes :
        (isHTML(n) /\ Visited(n)) =>
            LET es == EntriesFor(Built, n)
            IN  IF TouchesNode(n)
                THEN es = <<>>
                ELSE /\ Len(es) = 1
                     /\ es[1].from = n.from /\ es[1].to = n.to
                     /\ es[1].widget.type = "HTMLWidget"

\* C4: a hidden header mark is hidden from its start to its end, plus the one
\* character after it when that character is a space, and never past the document
C4_HeaderMarkRange ==
    \A i \in 1..Len(decorations) :
        LET e == decorations[i]
            n == e.node
        IN  n.name = "HeaderMark" =>
                /\ e.from = n.from
                /\ e.widget = NoWidget
                /\ e.to = IF n.to < Len(doc) /\ doc[n.to + 1] = " " THEN n.to + 1 ELSE n.to
                /\ e.to <= Len(doc)

\* C4 witness: the published set hides a header mark together with the space after
\* it, and hides a header mark that ends the document up to the document end
C4_Witness ==
    /\ \E i \in 1..Len(decorations) :
          /\ decorations[i].node.name = "HeaderMark"
          /\ decorations[i].to = decorations[i].node.to + 1
    /\ \E i \in 1..Len(decorations) :
          /\ decorations[i].node.name = "HeaderMark"
          /\ decorations[i].node.to = Len(doc)
          /\ decorations[i].to = Len(doc)

C6_Idempotent == passes = 2 => html = prevHtml

\* C7: the DOM drawn for a hidden HTML node is a container whose innerHTML is the
\* sanitizer applied to minifyHTML of the text of the node
C7_SanitizedContent ==
    /\ Len(rendered) = Len(decorations)
    /\ \A i \in 1..Len(decorations) :
          isHTML(decorations[i].node) =>
              /\ decorations[i].widget.type = "HTMLWidget"
              /\ rendered[i].tag = "span"
              /\ rendered[i].set = "innerHTML"
              /\ rendered[i].value =
                    sanitize(minifyHTML(sliceDoc(doc, decorations[i].node.from,
                                                 decorations[i].node.to)))

\* C7 witness: an HTML block whose text the normalizer changes is hidden and drawn
C7_Witness ==
    \E i \in 1..Len(decorations) :
        /\ decorations[i].node.name = "HTMLBlock"
        /\ rendered[i].set = "innerHTML"
        /\ decorations[i].widget.payload
              # sliceDoc(doc, decorations[i].node.from, decorations[i].node.to)

\* C8: after an update that carried any of the three flags the published set is
\* the build over the updated view
C8_RebuiltOnTrigger == Flagged => decorations = buildDecorations(view)

\* C8 witness: an update that only set the selection has published a non-empty set
C8_Witness ==
    /\ lastUpdate.selectionSet /\ ~lastUpdate.docChanged /\ ~lastUpdate.viewportChanged
    /\ selection.from > 0
    /\ decorations # <<>>

\* C9: two builds over one view agree, whatever was built before. buildDecorations
\* reads its argument and its own fresh builder only, so it is an operator of the
\* view here; the agreement of two evaluations of one operator is no property of
\* the behaviours of this module, and none is stated.

\* C10: the published set always equals the build over the current view
C10_NeverStale == decorations = buildDecorations(view)

====
